---- MODULE Spec2Model ----
(***************************************************************************)
(* The credential-refresh layer of the OpenMemory UI: the axios client     *)
(* with its request interceptor and its 401 response interceptor           *)
(* (isRefreshing, failedQueue, processQueue), and the part of the Redux    *)
(* auth slice it reads and writes (accessToken, logoutUser, loginUser).    *)
(*                                                                         *)
(* One action is one run of JavaScript between two network events: a       *)
(* handler runs to its next await, and the promise reactions it schedules  *)
(* (microtasks) run before the next network event is delivered.            *)
(***************************************************************************)
EXTENDS Naturals, Sequences, FiniteSets

\* ---------------------------------------------------------------- bounds
\* Requests the callers issue through apiClient.
NumReq == 3
\* Times one request is handed to the transport (the code has no cap).
MaxSends == 3
\* Access tokens the server issues (by /auth/login or /auth/refresh).
MaxTokens == 2
\* Login forms submitted.
MaxLogins == 1

\* accessToken: null
Null == 0

Req == 1..NumReq
Token == 0..MaxTokens
LoginId == 1..MaxLogins

VARIABLES
    auth,         \* state.auth of the Redux store
    isRefreshing, \* module-level flag of the response interceptor
    failedQueue,  \* module-level queue: the requests whose {resolve, reject} wait
    req,          \* the requests: position, _retry, Authorization header, outcome
    refreshCalls, \* the initiators whose POST /api/auth/refresh has not settled
    logoutCalls,  \* logoutUser thunks whose POST /api/auth/logout has not settled
    login,        \* loginUser thunks: position and the access_token received
    issued,       \* tokens the server has issued so far
    \* history variables (read by the properties only)
    resp,         \* per request, the last response the transport delivered to it
    enqOrder,     \* the requests that began to wait since the last flush, in order
    flushLog,     \* the requests the last processQueue settled, in the order it did
    flushEnq,     \* enqOrder as it was when the last processQueue ran
    invalidated,  \* a renewal has failed and no login has been fulfilled since
    renewedWith,  \* per request, the token of the last renewal it waited for
    renewedFor,   \* the credentials whose first-attempt 401 has started a renewal
    \* the pages (AuthInitializer, ProtectedRoute, login, register, settings)
    pathname,     \* usePathname()
    redirectTo,   \* the redirect_to parameter of the last push to /login, or "none"
    settingsLoading, \* isLoading of UserSettingsPage (TRUE while it is not mounted)
    fetchCalls,   \* fetchUser thunks of AuthInitializer in flight: those issued
                  \* while the server held a session, and those issued without one
    registerCalls,\* registerUser thunks in flight
    session,      \* the server holds a session for this browser's cookie
    loggedOut,    \* history: "no", or a logout has settled and no login was
                  \* submitted since ("clean": none was in flight either, "mixed")
    stranded,     \* history: a logout settled on a guarded page, with no login in
                  \* flight, and the user has not reached a public page since
    \* the API-key components of the settings page
    dialog,       \* GenerateApiKeyDialog: isOpen, keyName, isLoading, newApiKeyInfo, error
    genCall,      \* the POST /api/v1/keys in flight: the token it carries, and
                  \* whether the dialog that issued it is still mounted
    revokeCall,   \* the DELETE /api/v1/keys/<prefix> in flight: the token that
                  \* handleRevoke captured
    listSeen,     \* whether ApiKeyList's effect has run since it was mounted, and
                  \* the accessToken it ran for
    keyLog        \* history: the requests issued to /api/v1/keys, each with its
                  \* Authorization token and the store's token at that moment

vars == <<auth, isRefreshing, failedQueue, req, refreshCalls, logoutCalls, login,
          issued, resp, enqOrder, flushLog, flushEnq, invalidated, renewedWith,
          renewedFor, pathname, redirectTo, settingsLoading, fetchCalls,
          registerCalls, session, loggedOut, stranded, dialog, genCall,
          revokeCall, listSeen, keyLog>>

\* The API-key components' state.
keyVars == <<dialog, genCall, revokeCall, listSeen, keyLog>>

\* What the client's own steps leave alone.
pageVars == <<pathname, redirectTo, settingsLoading, fetchCalls, registerCalls,
              dialog, genCall, revokeCall, listSeen, keyLog>>

\* No request in flight.
noCall == [st |-> "none", tok |-> Null, live |-> FALSE]

\* GenerateApiKeyDialog's useState initial values.
closedDialog ==
    [isOpen |-> FALSE, keyName |-> "", isLoading |-> FALSE,
     newApiKeyInfo |-> "null", error |-> "null"]

\* ------------------------------------------------------- auth slice (store)
initialState ==
    [isAuthenticated |-> FALSE, user |-> "null", accessToken |-> Null,
     status |-> "idle", error |-> "null"]

setAccessToken(a, t) == [a EXCEPT !.accessToken = t]

selectAccessToken(a) == a.accessToken

clearAuthError(a) == [a EXCEPT !.error = "null"]

registerUserPending(a) == [a EXCEPT !.status = "loading", !.error = "null"]

registerUserFulfilled(a) == [a EXCEPT !.status = "succeeded"]

registerUserRejected(a, payload) == [a EXCEPT !.status = "failed", !.error = payload]

fetchUserPending(a) == [a EXCEPT !.status = "loading", !.error = "null"]

fetchUserFulfilled(a) ==
    [a EXCEPT !.status = "succeeded", !.isAuthenticated = TRUE,
              !.user = "user", !.error = "null"]

\* fetchUser.rejected as it would be if it left the user in the store.
fetchUserRejected_KeepUser(a, payload) ==
    [a EXCEPT !.status = "failed", !.isAuthenticated = FALSE,
              !.error = IF payload # "Not authenticated" THEN payload ELSE a.error]

fetchUserRejected(a, payload) ==
    [a EXCEPT !.status = "failed", !.isAuthenticated = FALSE, !.user = "null",
              !.error = IF payload # "Not authenticated" THEN payload ELSE a.error]

loginUserPending(a) ==
    [a EXCEPT !.status = "loading", !.accessToken = Null, !.error = "null"]

loginUserFulfilled(a, t) == [a EXCEPT !.status = "succeeded", !.accessToken = t]

loginUserRejected(a, payload) ==
    [a EXCEPT !.status = "failed", !.isAuthenticated = FALSE, !.user = "null",
              !.accessToken = Null, !.error = payload]

logoutUserPending(a) == [a EXCEPT !.status = "loading"]

\* logoutUser.fulfilled as it would be if it left status as logoutUser.pending set it.
logoutUserFulfilled_KeepStatus(a) ==
    [a EXCEPT !.isAuthenticated = FALSE, !.user = "null",
              !.accessToken = Null, !.error = "null"]

logoutUserFulfilled(a) ==
    [a EXCEPT !.status = "idle", !.isAuthenticated = FALSE, !.user = "null",
              !.accessToken = Null, !.error = "null"]

\* logoutUser.rejected as it would be if it kept the session on a failed logout.
logoutUserRejected_KeepSession(a, payload) ==
    [a EXCEPT !.status = "failed", !.error = payload]

logoutUserRejected(a, payload) ==
    [a EXCEPT !.status = "failed", !.isAuthenticated = FALSE, !.user = "null",
              !.accessToken = Null, !.error = payload]

\* ------------------------------------------------------------ the client
\* The request interceptor as it would be if it never wrote the header.
RequestInterceptor_NoAttach(a, hdr) == hdr

\* The request interceptor: the header is the store's token when it holds one,
\* and is left as the config has it otherwise.
RequestInterceptor(a, hdr) ==
    IF selectAccessToken(a) # Null THEN selectAccessToken(a) ELSE hdr

\* apiClient(config): the request interceptor, then the transport.
Dispatch(rq, a) ==
    [rq EXCEPT !.st = "flight", !.hdr = RequestInterceptor(a, rq.hdr),
               !.sends = rq.sends + 1]

\* failedQueue.push({ resolve, reject })
Push(q, r) == Append(q, r)

\* processQueue as it would be if it drained the queue from its end.
ForEachReversed(q) == [i \in 1..Len(q) |-> q[Len(q) + 1 - i]]

\* failedQueue.forEach: the entries in the order they are settled.
RECURSIVE ForEach(_)
ForEach(q) == IF q = <<>> THEN <<>> ELSE <<Head(q)>> \o ForEach(Tail(q))

Range(q) == {q[i] : i \in 1..Len(q)}

\* The continuation of a queued request, resolved with token t: the header is
\* set to Bearer t and the request is handed to apiClient again.
QueuedContinuation(rq, a, t) == Dispatch([rq EXCEPT !.hdr = t], a)

\* Reject(error): the caller's promise is rejected with the error.
Settle(rq, outcome) == [rq EXCEPT !.st = "done", !.out = outcome]

newRequest == [st |-> "new", retry |-> FALSE, hdr |-> Null, sends |-> 0, out |-> "none"]

Init ==
    /\ auth = initialState
    /\ isRefreshing = FALSE
    /\ failedQueue = <<>>
    /\ req = [r \in Req |-> newRequest]
    /\ refreshCalls = {}
    /\ logoutCalls = 0
    /\ login = [l \in LoginId |-> [pc |-> "idle", tok |-> Null]]
    /\ issued = 0
    /\ enqOrder = <<>>
    /\ flushLog = <<>>
    /\ flushEnq = <<>>
    /\ invalidated = FALSE
    /\ resp = [r \in Req |-> "none"]
    /\ renewedWith = [r \in Req |-> Null]
    /\ renewedFor = {}
    /\ pathname = "/"
    /\ redirectTo = "none"
    /\ settingsLoading = TRUE
    /\ fetchCalls = [mayOk |-> 0, mustFail |-> 0]
    /\ registerCalls = 0
    /\ session = TRUE
    /\ loggedOut = "no"
    /\ stranded = FALSE
    /\ dialog = closedDialog
    /\ genCall = noCall
    /\ revokeCall = noCall
    /\ listSeen = [ran |-> FALSE, tok |-> Null]
    /\ keyLog = {}

\* A caller issues its request through apiClient; requests are numbered in the
\* order they are issued.
CallerSend(r) ==
    /\ req[r].st = "new"
    /\ \A q \in Req : q < r => req[q].st # "new"
    /\ req' = [req EXCEPT ![r] = Dispatch(req[r], auth)]
    /\ UNCHANGED <<auth, isRefreshing, failedQueue, refreshCalls, logoutCalls, login,
                   issued, resp, enqOrder, flushLog, flushEnq, invalidated,
                   renewedWith, renewedFor>>
    /\ UNCHANGED <<pageVars, session, loggedOut, stranded>>

\* The success handler of the response interceptor: the response is returned.
OnFulfilled(r) ==
    /\ req' = [req EXCEPT ![r] = Settle(req[r], "ok")]
    /\ UNCHANGED <<auth, isRefreshing, failedQueue, refreshCalls, logoutCalls>>

\* OnRejected as it would be if isRefreshing were set only after the renewal
\* call had been awaited.
OnRejected_FlagAfterAwait(r, kind) ==
    IF kind = "401" /\ ~req[r].retry
    THEN IF isRefreshing
         THEN /\ failedQueue' = Push(failedQueue, r)
              /\ req' = [req EXCEPT ![r].st = "queued"]
              /\ UNCHANGED <<auth, isRefreshing, refreshCalls, logoutCalls>>
         ELSE /\ req' = [req EXCEPT ![r].retry = TRUE, ![r].st = "renewing"]
              /\ refreshCalls' = refreshCalls \cup {r}
              /\ UNCHANGED <<auth, isRefreshing, failedQueue, logoutCalls>>
    ELSE /\ req' = [req EXCEPT ![r] = Settle(req[r], kind)]
         /\ UNCHANGED <<auth, isRefreshing, failedQueue, refreshCalls, logoutCalls>>

\* OnRejected as it would be if it tested for any error response, not for 401.
OnRejected_AnyStatus(r, kind) ==
    IF kind \in {"401", "500"} /\ ~req[r].retry
    THEN IF isRefreshing
         THEN /\ failedQueue' = Push(failedQueue, r)
              /\ req' = [req EXCEPT ![r].st = "queued"]
              /\ UNCHANGED <<auth, isRefreshing, refreshCalls, logoutCalls>>
         ELSE /\ req' = [req EXCEPT ![r].retry = TRUE, ![r].st = "renewing"]
              /\ isRefreshing' = TRUE
              /\ refreshCalls' = refreshCalls \cup {r}
              /\ UNCHANGED <<auth, failedQueue, logoutCalls>>
    ELSE /\ req' = [req EXCEPT ![r] = Settle(req[r], kind)]
         /\ UNCHANGED <<auth, isRefreshing, failedQueue, refreshCalls, logoutCalls>>

\* OnRejected as it would be if a 401 handled during a renewal were rejected at
\* once instead of being queued.
OnRejected_RejectWhileRefreshing(r, kind) ==
    IF kind = "401" /\ ~req[r].retry /\ ~isRefreshing
    THEN /\ req' = [req EXCEPT ![r].retry = TRUE, ![r].st = "renewing"]
         /\ isRefreshing' = TRUE
         /\ refreshCalls' = refreshCalls \cup {r}
         /\ UNCHANGED <<auth, failedQueue, logoutCalls>>
    ELSE /\ req' = [req EXCEPT ![r] = Settle(req[r], kind)]
         /\ UNCHANGED <<auth, isRefreshing, failedQueue, refreshCalls, logoutCalls>>

\* The error handler of the response interceptor, up to its first await, for an
\* error of kind "401", "500" (a status other than 401) or "neterr" (no response).
OnRejected(r, kind) ==
    IF kind = "401" /\ ~req[r].retry
    THEN IF isRefreshing
         THEN /\ failedQueue' = Push(failedQueue, r)
              /\ req' = [req EXCEPT ![r].st = "queued"]
              /\ UNCHANGED <<auth, isRefreshing, refreshCalls, logoutCalls>>
         ELSE /\ req' = [req EXCEPT ![r].retry = TRUE, ![r].st = "renewing"]
              /\ isRefreshing' = TRUE
              /\ refreshCalls' = refreshCalls \cup {r}
              /\ UNCHANGED <<auth, failedQueue, logoutCalls>>
    ELSE /\ req' = [req EXCEPT ![r] = Settle(req[r], kind)]
         /\ UNCHANGED <<auth, isRefreshing, failedQueue, refreshCalls, logoutCalls>>

\* OnRefreshFulfilled as it would be if the requests were resent before
\* setAccessToken is dispatched: the request interceptor reads the old store.
OnRefreshFulfilled_StoreAfterResend(r, t) ==
    /\ auth' = setAccessToken(auth, t)
    /\ req' = [q \in Req |->
                 IF q = r THEN Dispatch([req[q] EXCEPT !.hdr = t], auth)
                 ELSE IF q \in Range(failedQueue)
                      THEN QueuedContinuation(req[q], auth, t)
                      ELSE req[q]]
    /\ failedQueue' = <<>>
    /\ isRefreshing' = FALSE
    /\ UNCHANGED logoutCalls

\* OnRefreshFulfilled as it would be without the finally block.
OnRefreshFulfilled_NoFinally(r, t) ==
    /\ auth' = setAccessToken(auth, t)
    /\ req' = [q \in Req |->
                 IF q = r THEN Dispatch([req[q] EXCEPT !.hdr = t], auth')
                 ELSE IF q \in Range(failedQueue)
                      THEN QueuedContinuation(req[q], auth', t)
                      ELSE req[q]]
    /\ failedQueue' = <<>>
    /\ UNCHANGED <<isRefreshing, logoutCalls>>

\* OnRefreshFulfilled as it would be if processQueue did not empty failedQueue.
OnRefreshFulfilled_KeepQueue(r, t) ==
    /\ auth' = setAccessToken(auth, t)
    /\ req' = [q \in Req |->
                 IF q = r THEN Dispatch([req[q] EXCEPT !.hdr = t], auth')
                 ELSE IF q \in Range(failedQueue)
                      THEN QueuedContinuation(req[q], auth', t)
                      ELSE req[q]]
    /\ isRefreshing' = FALSE
    /\ UNCHANGED <<failedQueue, logoutCalls>>

\* The error handler after axios.post('/api/auth/refresh') returned token t: the
\* rest of the try block, the finally block, and the promise reactions scheduled.
OnRefreshFulfilled(r, t) ==
    /\ auth' = setAccessToken(auth, t)
    /\ req' = [q \in Req |->
                 IF q = r THEN Dispatch([req[q] EXCEPT !.hdr = t], auth')
                 ELSE IF q \in Range(failedQueue)
                      THEN QueuedContinuation(req[q], auth', t)
                      ELSE req[q]]
    /\ failedQueue' = <<>>
    /\ isRefreshing' = FALSE
    /\ UNCHANGED logoutCalls

\* OnRefreshRejected as it would be without the call processQueue(refreshError).
OnRefreshRejected_NoProcessQueue(r, kind) ==
    /\ auth' = logoutUserPending(auth)
    /\ logoutCalls' = logoutCalls + 1
    /\ req' = [req EXCEPT ![r] = Settle(req[r], kind)]
    /\ isRefreshing' = FALSE
    /\ UNCHANGED failedQueue

\* OnRefreshRejected as it would be if every rejected caller dispatched logoutUser.
OnRefreshRejected_LogoutPerCaller(r, kind) ==
    /\ auth' = logoutUserPending(auth)
    /\ logoutCalls' = logoutCalls + 1 + Len(failedQueue)
    /\ req' = [q \in Req |->
                 IF q = r \/ q \in Range(failedQueue)
                 THEN Settle(req[q], kind) ELSE req[q]]
    /\ failedQueue' = <<>>
    /\ isRefreshing' = FALSE

\* The error handler after axios.post('/api/auth/refresh') failed with an error
\* of kind "refresh401", "refresh403" or "refreshNet": the catch block, the
\* finally block, and the promise reactions scheduled.
OnRefreshRejected(r, kind) ==
    /\ auth' = logoutUserPending(auth)
    /\ logoutCalls' = logoutCalls + 1
    /\ req' = [q \in Req |->
                 IF q = r \/ q \in Range(failedQueue)
                 THEN Settle(req[q], kind) ELSE req[q]]
    /\ failedQueue' = <<>>
    /\ isRefreshing' = FALSE

\* The transport delivers a 2xx response to request r.
ResponseOk(r) ==
    /\ req[r].st = "flight"
    /\ resp' = [resp EXCEPT ![r] = "ok"]
    /\ OnFulfilled(r)
    /\ UNCHANGED <<login, issued, enqOrder, flushLog, flushEnq, invalidated,
                   renewedWith, renewedFor>>
    /\ UNCHANGED <<pageVars, session, loggedOut, stranded>>

\* The transport delivers an error to request r. A renewal started by the first
\* attempt of a request is recorded under the credential the request carried.
DeliverError(r, kind) ==
    /\ req[r].st = "flight"
    /\ resp' = [resp EXCEPT ![r] = kind]
    /\ OnRejected(r, kind)
    /\ enqOrder' = IF req'[r].st = "queued" THEN Append(enqOrder, r) ELSE enqOrder
    /\ renewedFor' = IF refreshCalls' # refreshCalls /\ req[r].sends = 1
                     THEN renewedFor \cup {req[r].hdr} ELSE renewedFor
    /\ UNCHANGED <<login, issued, flushLog, flushEnq, invalidated, renewedWith>>
    /\ UNCHANGED <<pageVars, session, loggedOut, stranded>>

\* DeliverError, with the number of sends that a 401 can prolong capped.
ResponseError(r, kind) ==
    /\ (kind = "401" /\ ~req[r].retry) => req[r].sends < MaxSends
    /\ DeliverError(r, kind)

\* POST /api/auth/refresh, issued for request r, returns a fresh access_token.
RenewalReturnsToken(r) ==
    /\ r \in refreshCalls
    /\ issued' = issued + 1
    /\ refreshCalls' = refreshCalls \ {r}
    /\ OnRefreshFulfilled(r, issued + 1)
    /\ flushLog' = ForEach(failedQueue)
    /\ flushEnq' = enqOrder
    /\ enqOrder' = <<>>
    /\ renewedWith' = [q \in Req |->
                         IF q = r \/ q \in Range(enqOrder) THEN issued + 1
                         ELSE renewedWith[q]]
    /\ UNCHANGED <<login, resp, invalidated, renewedFor>>
    /\ UNCHANGED <<pageVars, session, loggedOut, stranded>>

\* RenewalReturnsToken, with the number of tokens the server issues capped.
RefreshSucceeds(r) == issued < MaxTokens /\ RenewalReturnsToken(r)

\* POST /api/auth/refresh, issued for request r, fails.
RefreshFails(r, kind) ==
    /\ r \in refreshCalls
    /\ refreshCalls' = refreshCalls \ {r}
    /\ OnRefreshRejected(r, kind)
    /\ flushLog' = ForEach(failedQueue)
    /\ flushEnq' = enqOrder
    /\ enqOrder' = <<>>
    /\ invalidated' = TRUE
    /\ UNCHANGED <<login, issued, resp, renewedWith, renewedFor>>
    /\ UNCHANGED <<pageVars, session, loggedOut, stranded>>

\* POST /api/auth/logout settles: payload "ok", or the rejectWithValue payload.
LogoutThunkSettles(payload) ==
    /\ logoutCalls > 0
    /\ logoutCalls' = logoutCalls - 1
    /\ auth' = IF payload = "ok" THEN logoutUserFulfilled(auth)
               ELSE logoutUserRejected(auth, payload)
    /\ UNCHANGED <<isRefreshing, failedQueue, req, refreshCalls, login, issued,
                   resp, enqOrder, flushLog, flushEnq, invalidated, renewedWith,
                   renewedFor>>
    /\ UNCHANGED pageVars

\* POST /api/auth/logout settles, seen from the client alone.
LogoutSettles(payload) == LogoutThunkSettles(payload) /\ UNCHANGED <<session, loggedOut, stranded>>

\* The login form is submitted (its button is disabled while status is 'loading').
LoginThunkSubmit(l) ==
    /\ login[l].pc = "idle"
    /\ \A k \in LoginId : k < l => login[k].pc # "idle"
    /\ auth.status # "loading"
    /\ auth' = loginUserPending([auth EXCEPT !.error = "null"])
    /\ login' = [login EXCEPT ![l].pc = "post"]
    /\ UNCHANGED <<isRefreshing, failedQueue, req, refreshCalls, logoutCalls, issued,
                   resp, enqOrder, flushLog, flushEnq, invalidated, renewedWith,
                   renewedFor>>
    /\ UNCHANGED pageVars

\* The login form is submitted, seen from the client alone.
LoginSubmit(l) == LoginThunkSubmit(l) /\ UNCHANGED <<session, loggedOut, stranded>>

\* POST /api/auth/login returns { access_token }: fetchUser is dispatched.
LoginThunkAccepted(l) ==
    /\ login[l].pc = "post"
    /\ issued < MaxTokens
    /\ issued' = issued + 1
    /\ login' = [login EXCEPT ![l] = [pc |-> "me", tok |-> issued + 1]]
    /\ auth' = fetchUserPending(auth)
    /\ UNCHANGED <<isRefreshing, failedQueue, req, refreshCalls, logoutCalls,
                   resp, enqOrder, flushLog, flushEnq, invalidated, renewedWith,
                   renewedFor>>
    /\ UNCHANGED pageVars

\* POST /api/auth/login returns a token, seen from the client alone.
LoginAccepted(l) == LoginThunkAccepted(l) /\ UNCHANGED <<session, loggedOut, stranded>>

\* POST /api/auth/login fails: payload is the rejectWithValue payload.
LoginRefused(l, payload) ==
    /\ login[l].pc = "post"
    /\ login' = [login EXCEPT ![l].pc = "done"]
    /\ auth' = loginUserRejected(auth, payload)
    /\ UNCHANGED <<isRefreshing, failedQueue, req, refreshCalls, logoutCalls, issued,
                   resp, enqOrder, flushLog, flushEnq, invalidated, renewedWith,
                   renewedFor>>
    /\ UNCHANGED <<pageVars, session, loggedOut, stranded>>

\* The fetchUser dispatched inside loginUser settles (payload "ok" or the
\* rejectWithValue payload), and loginUser is fulfilled with the token.
LoginFetchUserSettles(l, payload) ==
    /\ login[l].pc = "me"
    /\ login' = [login EXCEPT ![l].pc = "done"]
    /\ auth' = loginUserFulfilled(
                  IF payload = "ok" THEN fetchUserFulfilled(auth)
                  ELSE fetchUserRejected(auth, payload),
                  login[l].tok)
    /\ invalidated' = FALSE
    /\ UNCHANGED <<isRefreshing, failedQueue, req, refreshCalls, logoutCalls, issued,
                   resp, enqOrder, flushLog, flushEnq, renewedWith, renewedFor>>
    /\ UNCHANGED <<pageVars, session, loggedOut, stranded>>

Next ==
    \/ \E r \in Req : CallerSend(r)
    \/ \E r \in Req : ResponseOk(r)
    \/ \E r \in Req, kind \in {"401", "500", "neterr"} : ResponseError(r, kind)
    \/ \E r \in Req : RefreshSucceeds(r)
    \/ \E r \in Req, kind \in {"refresh401", "refresh403", "refreshNet"} :
          RefreshFails(r, kind)
    \/ \E payload \in {"ok", "Logout failed", "Network error"} : LogoutSettles(payload)
    \/ \E l \in LoginId : LoginSubmit(l)
    \/ \E l \in LoginId : LoginAccepted(l)
    \/ \E l \in LoginId, payload \in {"Login failed", "Network error"} :
          LoginRefused(l, payload)
    \/ \E l \in LoginId,
          payload \in {"ok", "Not authenticated", "Failed to fetch user", "Network error"} :
          LoginFetchUserSettles(l, payload)

Spec == Init /\ [][Next]_vars

\* The client alone, with no cap on resends or renewals and no login form (a
\* login changes the store's token only, never a request's position). Every
\* transport call and every renewal call eventually returns: weak fairness on
\* the return of each call, with the outcome left open.
TransportReturns(r) ==
    \/ ResponseOk(r)
    \/ \E kind \in {"401", "500", "neterr"} : DeliverError(r, kind)

RenewalReturns(r) ==
    \/ RenewalReturnsToken(r)
    \/ \E kind \in {"refresh401", "refresh403", "refreshNet"} : RefreshFails(r, kind)

LiveNext ==
    \/ \E r \in Req : CallerSend(r)
    \/ \E r \in Req : TransportReturns(r)
    \/ \E r \in Req : RenewalReturns(r)
    \/ \E payload \in {"ok", "Logout failed", "Network error"} : LogoutSettles(payload)

LiveSpec ==
    /\ Init
    /\ [][LiveNext]_vars
    /\ \A r \in Req : WF_vars(TransportReturns(r)) /\ WF_vars(RenewalReturns(r))

\* ------------------------------------------------------------ the pages
\* The store and the client together with the components that read the store:
\* AuthInitializer, ProtectedRoute (taken to wrap every page, as its handling of
\* /login and /register supposes), the login, register and settings pages.
\* React runs the effects of a render before the next event is handled: while
\* an effect is due, only effects run.

\* Requests issued through apiClient while the pages are modelled.
NumAppReq == 1
AppReq == 1..NumAppReq
\* registerUser thunks in flight at once.
MaxRegisters == 1

Paths == {"/", "/settings", "/login", "/register"}
Public == {"/login", "/register"}

\* ProtectedRoute's effect as it would be without the wait for the auth check.
ProtectedRouteEffect_NoWait(a, path) ==
    IF ~a.isAuthenticated /\ path # "/login" /\ path # "/register" THEN "/login"
    ELSE "none"

\* The useEffect of ProtectedRoute: the page it pushes, or "none".
ProtectedRouteEffect(a, path) ==
    IF a.status = "loading" \/ a.status = "idle" THEN "none"
    ELSE IF ~a.isAuthenticated
         THEN IF path # "/login" /\ path # "/register" THEN "/login"
              ELSE IF path = "/login" /\ a.isAuthenticated THEN "/"
              ELSE "none"
         ELSE "none"

\* ProtectedRoute's render as it would be without the loading indicator.
ProtectedRoute_NoLoader(a, path) ==
    IF a.isAuthenticated \/ path = "/login" \/ path = "/register"
    THEN "children"
    ELSE "null"

\* What ProtectedRoute renders.
ProtectedRoute(a, path) ==
    IF (a.status = "loading" \/ a.status = "idle")
          /\ path # "/login" /\ path # "/register"
    THEN "loader"
    ELSE IF a.isAuthenticated \/ path = "/login" \/ path = "/register"
         THEN "children"
         ELSE "null"

\* What UserSettingsPage renders.
UserSettingsPage(a, isLoading) ==
    IF isLoading \/ a.status = "idle" \/ a.status = "loading" THEN "loader"
    ELSE IF ~a.isAuthenticated THEN "redirecting"
    ELSE "content"

\* The store after the mount effect of the page at path (the login and the
\* register page dispatch clearAuthError when they mount).
Mount(a, path) == IF path \in Public THEN clearAuthError(a) ELSE a

InitializerDue == auth.status = "idle"
RouteDue == ProtectedRouteEffect(auth, pathname) # "none"
LoginPageDue == pathname = "/login" /\ auth.isAuthenticated
SettingsDue ==
    /\ pathname = "/settings" /\ settingsLoading
    /\ auth.status # "idle" /\ auth.status # "loading" /\ auth.isAuthenticated
Idle == ~(InitializerDue \/ RouteDue \/ LoginPageDue \/ SettingsDue)

\* AuthInitializer's effect: status 'idle' dispatches fetchUser.
InitializerEffect ==
    /\ InitializerDue
    /\ auth' = fetchUserPending(auth)
    /\ fetchCalls' = IF session THEN [fetchCalls EXCEPT !.mayOk = @ + 1]
                     ELSE [fetchCalls EXCEPT !.mustFail = @ + 1]
    /\ UNCHANGED <<isRefreshing, failedQueue, req, refreshCalls, logoutCalls, login,
                   issued, resp, enqOrder, flushLog, flushEnq, invalidated,
                   renewedWith, renewedFor, pathname, redirectTo, settingsLoading,
                   registerCalls, session, loggedOut, stranded>>
    /\ UNCHANGED keyVars

\* GET /api/auth/me of a fetchUser thunk settles: payload "ok" or the
\* rejectWithValue payload. The server answers ok only to a call during whose
\* flight it held a session.
FetchUserSettles(kind, payload) ==
    /\ Idle
    /\ fetchCalls[kind] > 0
    /\ payload = "ok" => (kind = "mayOk" \/ session)
    /\ fetchCalls' = [fetchCalls EXCEPT ![kind] = @ - 1]
    /\ auth' = IF payload = "ok" THEN fetchUserFulfilled(auth)
               ELSE fetchUserRejected(auth, payload)
    /\ UNCHANGED <<isRefreshing, failedQueue, req, refreshCalls, logoutCalls, login,
                   issued, resp, enqOrder, flushLog, flushEnq, invalidated,
                   renewedWith, renewedFor, pathname, redirectTo, settingsLoading,
                   registerCalls, session, loggedOut, stranded>>
    /\ UNCHANGED keyVars

\* ProtectedRoute's effect pushes /login?redirect_to=<pathname>. (On /settings
\* the page's own effect pushes /login first; the parent's push follows it.)
RouteEffect ==
    /\ RouteDue
    /\ pathname' = ProtectedRouteEffect(auth, pathname)
    /\ redirectTo' = IF pathname' = "/login" THEN pathname ELSE "none"
    /\ settingsLoading' = TRUE
    /\ auth' = Mount(auth, pathname')
    /\ stranded' = (stranded /\ pathname' \notin Public)
    /\ UNCHANGED <<isRefreshing, failedQueue, req, refreshCalls, logoutCalls, login,
                   issued, resp, enqOrder, flushLog, flushEnq, invalidated,
                   renewedWith, renewedFor, fetchCalls, registerCalls, session,
                   loggedOut>>
    /\ UNCHANGED keyVars

\* The login page's effect: an authenticated user is pushed to '/'.
LoginPageEffect ==
    /\ LoginPageDue
    /\ pathname' = "/"
    /\ redirectTo' = "none"
    /\ auth' = clearAuthError(auth)
    /\ UNCHANGED <<isRefreshing, failedQueue, req, refreshCalls, logoutCalls, login,
                   issued, resp, enqOrder, flushLog, flushEnq, invalidated,
                   renewedWith, renewedFor, settingsLoading, fetchCalls,
                   registerCalls, session, loggedOut, stranded>>
    /\ UNCHANGED keyVars

\* The settings page's effect: setIsLoading(false) once the user is confirmed.
SettingsEffect ==
    /\ SettingsDue
    /\ settingsLoading' = FALSE
    /\ UNCHANGED <<auth, isRefreshing, failedQueue, req, refreshCalls, logoutCalls,
                   login, issued, resp, enqOrder, flushLog, flushEnq, invalidated,
                   renewedWith, renewedFor, pathname, redirectTo, fetchCalls,
                   registerCalls, session, loggedOut, stranded>>
    /\ UNCHANGED keyVars

\* The user opens another page.
Navigate(path) ==
    /\ Idle
    /\ path # pathname
    /\ pathname' = path
    /\ redirectTo' = "none"
    /\ settingsLoading' = TRUE
    /\ auth' = Mount(auth, path)
    /\ stranded' = (stranded /\ path \notin Public)
    /\ UNCHANGED <<isRefreshing, failedQueue, req, refreshCalls, logoutCalls, login,
                   issued, resp, enqOrder, flushLog, flushEnq, invalidated,
                   renewedWith, renewedFor, fetchCalls, registerCalls, session,
                   loggedOut>>
    /\ UNCHANGED keyVars

\* The register form is submitted (its button is disabled in status 'loading').
RegisterSubmit ==
    /\ Idle
    /\ pathname = "/register"
    /\ auth.status # "loading"
    /\ registerCalls < MaxRegisters
    /\ registerCalls' = registerCalls + 1
    /\ auth' = registerUserPending(clearAuthError(auth))
    /\ UNCHANGED <<isRefreshing, failedQueue, req, refreshCalls, logoutCalls, login,
                   issued, resp, enqOrder, flushLog, flushEnq, invalidated,
                   renewedWith, renewedFor, pathname, redirectTo, settingsLoading,
                   fetchCalls, session, loggedOut, stranded>>
    /\ UNCHANGED keyVars

\* POST /api/auth/register settles; when fulfilled, handleSubmit pushes /login.
RegisterSettles(payload) ==
    /\ Idle
    /\ registerCalls > 0
    /\ registerCalls' = registerCalls - 1
    /\ IF payload = "ok"
       THEN /\ auth' = Mount(registerUserFulfilled(auth), "/login")
            /\ pathname' = "/login"
            /\ redirectTo' = "none"
            /\ settingsLoading' = TRUE
            /\ stranded' = FALSE
       ELSE /\ auth' = registerUserRejected(auth, payload)
            /\ UNCHANGED <<pathname, redirectTo, settingsLoading, stranded>>
    /\ UNCHANGED <<isRefreshing, failedQueue, req, refreshCalls, logoutCalls, login,
                   issued, resp, enqOrder, flushLog, flushEnq, invalidated,
                   renewedWith, renewedFor, fetchCalls, session, loggedOut>>
    /\ UNCHANGED keyVars

\* POST /api/auth/logout settles; a fulfilled logout ends the server's session.
AppLogoutSettles(payload) ==
    /\ Idle
    /\ LogoutThunkSettles(payload)
    /\ session' = IF payload = "ok" THEN FALSE ELSE session
    /\ loggedOut' = IF \E l \in LoginId : login[l].pc \in {"post", "me"}
                    THEN "mixed" ELSE "clean"
    /\ stranded' = (stranded \/ (loggedOut' = "clean" /\ pathname \notin Public))

\* The login form, on the login page, is submitted.
AppLoginSubmit(l) ==
    /\ Idle
    /\ pathname = "/login"
    /\ LoginThunkSubmit(l)
    /\ loggedOut' = "no"
    /\ UNCHANGED <<session, stranded>>

\* POST /api/auth/login returns a token: the server holds a session.
AppLoginAccepted(l) ==
    /\ Idle
    /\ LoginThunkAccepted(l)
    /\ session' = TRUE
    /\ UNCHANGED <<loggedOut, stranded>>

AppNext ==
    \/ InitializerEffect
    \/ RouteEffect
    \/ LoginPageEffect
    \/ SettingsEffect
    \/ \E kind \in {"mayOk", "mustFail"},
          payload \in {"ok", "Not authenticated", "Failed to fetch user", "Network error"} :
          FetchUserSettles(kind, payload)
    \/ \E path \in Paths : Navigate(path)
    \/ RegisterSubmit
    \/ \E payload \in {"ok", "Registration failed", "Network error"} : RegisterSettles(payload)
    \/ \E payload \in {"ok", "Logout failed", "Network error"} : AppLogoutSettles(payload)
    \/ \E l \in LoginId : AppLoginSubmit(l)
    \/ \E l \in LoginId : AppLoginAccepted(l)
    \/ \E l \in LoginId, payload \in {"Login failed", "Network error"} :
          Idle /\ LoginRefused(l, payload)
    \/ \E l \in LoginId,
          payload \in {"ok", "Not authenticated", "Failed to fetch user", "Network error"} :
          Idle /\ LoginFetchUserSettles(l, payload)
    \/ \E r \in AppReq : Idle /\ CallerSend(r)
    \/ \E r \in AppReq : Idle /\ ResponseOk(r)
    \/ \E r \in AppReq, kind \in {"401", "500", "neterr"} : Idle /\ ResponseError(r, kind)
    \/ \E r \in AppReq : Idle /\ RefreshSucceeds(r)
    \/ \E r \in AppReq, kind \in {"refresh401", "refresh403", "refreshNet"} :
          Idle /\ RefreshFails(r, kind)

\* Effects run, and every fetchUser call settles.
AppSpec ==
    /\ Init
    /\ [][AppNext]_vars
    /\ WF_vars(InitializerEffect \/ RouteEffect \/ LoginPageEffect \/ SettingsEffect)
    /\ SF_vars(\E kind \in {"mayOk", "mustFail"},
                  payload \in {"ok", "Not authenticated", "Failed to fetch user",
                               "Network error"} : FetchUserSettles(kind, payload))

\* ------------------------------------------------------------ the API keys
\* The settings page's ApiKeyList and GenerateApiKeyDialog, mounted while the
\* page shows its content. A handler uses the accessToken of the render that
\* created it; what runs after an await still uses that one.

\* Everything but the API-key components' state.
notKeyVars ==
    <<auth, isRefreshing, failedQueue, req, refreshCalls, logoutCalls, login, issued,
      resp, enqOrder, flushLog, flushEnq, invalidated, renewedWith, renewedFor,
      pathname, redirectTo, settingsLoading, fetchCalls, registerCalls, session,
      loggedOut, stranded>>

KeysMounted ==
    pathname = "/settings" /\ UserSettingsPage(auth, settingsLoading) = "content"

UnmountDue ==
    /\ ~KeysMounted
    /\ dialog # closedDialog \/ genCall.live \/ revokeCall.live \/ listSeen.ran
ListDue == KeysMounted /\ (~listSeen.ran \/ listSeen.tok # auth.accessToken)
KeysIdle == ~(UnmountDue \/ ListDue)

\* A request to /api/v1/keys as it is issued.
KeyRequest(api, tok) == [api |-> api, hdr |-> tok, store |-> auth.accessToken]

\* fetchApiKeys of a render whose accessToken is tok: the requests issued so far.
fetchApiKeys(tok) ==
    IF tok = Null THEN keyLog ELSE keyLog \cup {KeyRequest("list", tok)}

\* The page stops showing its content: the components' state is dropped, the
\* requests they issued stay in flight.
Unmount ==
    /\ UnmountDue
    /\ dialog' = closedDialog
    /\ genCall' = [genCall EXCEPT !.live = FALSE]
    /\ revokeCall' = [revokeCall EXCEPT !.live = FALSE]
    /\ listSeen' = [ran |-> FALSE, tok |-> Null]
    /\ UNCHANGED <<keyLog, notKeyVars>>

\* ApiKeyList's effect, on mount and when accessToken changes: fetchApiKeys().
ListEffect ==
    /\ ListDue
    /\ listSeen' = [ran |-> TRUE, tok |-> auth.accessToken]
    /\ keyLog' = fetchApiKeys(auth.accessToken)
    /\ UNCHANGED <<dialog, genCall, revokeCall, notKeyVars>>

\* handleRevoke, up to its await.
RevokeClick ==
    /\ Idle /\ KeysIdle /\ KeysMounted
    /\ revokeCall.st = "none"
    /\ IF auth.accessToken = Null
       THEN UNCHANGED <<revokeCall, keyLog>>
       ELSE /\ revokeCall' = [st |-> "flight", tok |-> auth.accessToken, live |-> TRUE]
            /\ keyLog' = keyLog \cup {KeyRequest("revoke", auth.accessToken)}
    /\ UNCHANGED <<dialog, genCall, listSeen, notKeyVars>>

\* The DELETE returns: when ok, handleRevoke calls the fetchApiKeys it holds.
RevokeSettles(ok) ==
    /\ Idle /\ KeysIdle
    /\ revokeCall.st = "flight"
    /\ revokeCall' = noCall
    /\ keyLog' = IF ok THEN fetchApiKeys(revokeCall.tok) ELSE keyLog
    /\ UNCHANGED <<dialog, genCall, listSeen, notKeyVars>>

\* onOpenChange(true), from the dialog's trigger.
DialogOpen ==
    /\ Idle /\ KeysIdle /\ KeysMounted
    /\ ~dialog.isOpen
    /\ dialog' = [dialog EXCEPT !.isOpen = TRUE]
    /\ UNCHANGED <<genCall, revokeCall, listSeen, keyLog, notKeyVars>>

\* closeDialog, from onOpenChange(false) (Escape, a click outside) or a button.
DialogClose ==
    /\ Idle /\ KeysIdle /\ KeysMounted
    /\ dialog.isOpen
    /\ dialog' = [dialog EXCEPT !.isOpen = FALSE, !.newApiKeyInfo = "null",
                                !.error = "null", !.keyName = ""]
    /\ UNCHANGED <<genCall, revokeCall, listSeen, keyLog, notKeyVars>>

\* The user types a key name (the input is disabled while isLoading).
TypeName ==
    /\ Idle /\ KeysIdle /\ KeysMounted
    /\ dialog.isOpen /\ dialog.newApiKeyInfo = "null" /\ ~dialog.isLoading
    /\ dialog.keyName = ""
    /\ dialog' = [dialog EXCEPT !.keyName = "name"]
    /\ UNCHANGED <<genCall, revokeCall, listSeen, keyLog, notKeyVars>>

\* handleSubmit of the dialog's form, up to its await.
GenerateSubmit ==
    /\ Idle /\ KeysIdle /\ KeysMounted
    /\ dialog.isOpen /\ dialog.newApiKeyInfo = "null" /\ ~dialog.isLoading
    /\ genCall.st = "none"
    /\ IF auth.accessToken = Null
       THEN /\ dialog' = [dialog EXCEPT !.error = "Authentication token not found"]
            /\ UNCHANGED <<genCall, keyLog>>
       ELSE /\ dialog' = [dialog EXCEPT !.isLoading = TRUE, !.error = "null",
                                        !.newApiKeyInfo = "null"]
            /\ genCall' = [st |-> "flight", tok |-> auth.accessToken, live |-> TRUE]
            /\ keyLog' = keyLog \cup {KeyRequest("create", auth.accessToken)}
    /\ UNCHANGED <<revokeCall, listSeen, notKeyVars>>

\* The POST returns: setNewApiKeyInfo(data) or setError, then setIsLoading(false),
\* in the dialog that issued it if it is still mounted.
GenerateSettles(ok) ==
    /\ Idle /\ KeysIdle
    /\ genCall.st = "flight"
    /\ genCall' = noCall
    /\ dialog' = IF ~genCall.live THEN dialog
                 ELSE IF ok THEN [dialog EXCEPT !.newApiKeyInfo = "key", !.isLoading = FALSE]
                 ELSE [dialog EXCEPT !.error = "Failed to generate API key",
                                     !.isLoading = FALSE]
    /\ listSeen' = IF genCall.live /\ ok THEN [ran |-> FALSE, tok |-> Null] ELSE listSeen
    /\ UNCHANGED <<revokeCall, keyLog, notKeyVars>>

KeysNext ==
    \/ Unmount
    \/ ListEffect
    \/ RevokeClick
    \/ \E ok \in BOOLEAN : RevokeSettles(ok)
    \/ DialogOpen
    \/ DialogClose
    \/ TypeName
    \/ GenerateSubmit
    \/ \E ok \in BOOLEAN : GenerateSettles(ok)
    \/ KeysIdle /\ AppNext

KeysSpec == Init /\ [][KeysNext]_vars

\* ------------------------------------------------------------ properties
RefreshErrors == {"refresh401", "refresh403", "refreshNet"}

NonAuth == {"ok", "500", "neterr"}

\* C1: at most one call to /auth/refresh is outstanding in every reachable state,
\* and isRefreshing is true whenever one is outstanding, so that a 401 handled
\* meanwhile is queued and issues no renewal call.
C1_SingleRenewalOutstanding ==
    /\ Cardinality(refreshCalls) <= 1
    /\ refreshCalls # {} => isRefreshing

\* C1 witness: one renewal outstanding and two further 401s handled meanwhile.
C1_Witness == Cardinality(refreshCalls) = 1 /\ Len(failedQueue) = 2

\* C2 (as claimed): for requests sent with the same credential, the first attempts'
\* 401s start one renewal in all, in every order of the 401s and the renewal's
\* response: a first-attempt 401 never starts a renewal for a credential for
\* which a first-attempt 401 has already started one.
C2_OneRenewalPerBurst ==
    [][\A r \in Req :
         (r \notin refreshCalls /\ r \in refreshCalls' /\ req[r].sends = 1
            /\ req[r].hdr # Null)
         => req[r].hdr \notin renewedFor]_vars

\* C3 (as claimed): a request is handed to the transport at most twice, and once
\* it has been resent a further 401 neither queues it nor starts a renewal.
C3_AtMostOneRetry ==
    \A r \in Req :
        /\ req[r].sends <= 2
        /\ req[r].sends = 2 => req[r].st \notin {"queued", "renewing"}

\* C4: when a renewal settles, processQueue settles the waiting requests in the
\* order in which they began to wait.
C4_FlushInEnqueueOrder == flushLog = flushEnq

\* C4 witness: a renewal succeeded with two requests queued, both resent.
C4_Witness ==
    /\ Len(flushLog) = 2
    /\ \A i \in 1..Len(flushLog) :
          req[flushLog[i]].st = "flight" /\ renewedWith[flushLog[i]] # Null

\* C5: when the renewal call fails, the initiator and every queued caller are
\* rejected with the renewal's error, none is resent, no renewal call remains,
\* isRefreshing is false and the queue is empty.
C5_RenewalFailureRejectsAll ==
    [][\A r \in Req :
         (r \in refreshCalls /\ r \notin refreshCalls' /\ issued' = issued)
         => /\ \A q \in {r} \cup Range(enqOrder) :
                  /\ req'[q].st = "done"
                  /\ req'[q].out \in RefreshErrors
                  /\ req'[q].out = req'[r].out
                  /\ req'[q].sends = req[q].sends
            /\ isRefreshing' = FALSE
            /\ failedQueue' = <<>>
            /\ refreshCalls' = {}]_vars

\* C5 witness: a renewal has failed with a request queued behind it.
C5_Witness ==
    /\ ~isRefreshing /\ failedQueue = <<>>
    /\ \E r, q \in Req :
          /\ r # q
          /\ req[r].retry /\ req[r].st = "done" /\ req[r].out \in RefreshErrors
          /\ ~req[q].retry /\ req[q].st = "done" /\ req[q].out = req[r].out
          /\ req[q].sends = 1

\* C6 (as claimed): after a renewal call has failed, and until a login is
\* fulfilled, every request handed to the transport carries no Authorization.
C6_NoHeaderAfterRenewalFailure ==
    [][\A r \in Req :
         (invalidated /\ req'[r].sends > req[r].sends) => req'[r].hdr = Null]_vars

\* C7 (as claimed): a 401 for a request whose _retry is set starts no renewal,
\* rejects the caller, and dispatches logoutUser.
C7_TerminalInvalidates ==
    [][\A r \in Req :
         (req[r].st = "flight" /\ req[r].retry /\ resp'[r] = "401"
            /\ req'[r] # req[r])
         => /\ req'[r].st = "done"
            /\ refreshCalls' = refreshCalls
            /\ logoutCalls' = logoutCalls + 1]_vars

\* C8: a response that is not a 401 (2xx, another status, or no response) settles
\* the caller with that response and changes nothing else: not isRefreshing, the
\* queue, the store, _retry, the number of sends or the renewal calls.
C8_PassThrough ==
    [][\A r \in Req :
         (req[r].st = "flight" /\ resp'[r] \in NonAuth /\ resp'[r] # resp[r])
         => /\ req' = [req EXCEPT ![r] = [req[r] EXCEPT !.st = "done",
                                                        !.out = resp'[r]]]
            /\ UNCHANGED <<auth, isRefreshing, failedQueue, refreshCalls,
                           logoutCalls>>]_vars

\* C8 witness: a 500 was passed through while a renewal was in flight with a
\* request queued.
C8_Witness ==
    /\ isRefreshing /\ failedQueue # <<>>
    /\ \E r \in Req : req[r].st = "done" /\ req[r].out = "500"

\* C9: when a renewal returns token T, every request resent for it (the initiator
\* and the queued ones) is dispatched with Authorization: Bearer T, and the store
\* holds T when they are dispatched.
C9_ResentWithRenewedToken ==
    [][\A r \in Req :
         renewedWith'[r] # renewedWith[r]
         => /\ auth'.accessToken = renewedWith'[r]
            /\ req'[r].st = "flight"
            /\ req'[r].sends = req[r].sends + 1
            /\ req'[r].hdr = renewedWith'[r]]_vars

\* C9 witness: the store held a token, a renewal replaced it, and the initiator
\* and a queued request are in flight again.
C9_Witness ==
    \E r, q \in Req :
        /\ r # q
        /\ renewedWith[r] = MaxTokens /\ renewedWith[q] = MaxTokens
        /\ req[r].st = "flight" /\ req[r].retry
        /\ req[q].st = "flight" /\ ~req[q].retry

\* C10: a failed renewal dispatches logoutUser once, however many callers are
\* queued behind it.
C10_OneLogoutPerFailure ==
    [][(\E r \in Req : r \in refreshCalls /\ r \notin refreshCalls'
                        /\ issued' = issued)
       => logoutCalls' = logoutCalls + 1]_vars

\* C10 witness: a renewal failed with two callers queued, and one logout call
\* is outstanding.
C10_Witness ==
    /\ logoutCalls = 1
    /\ Len(flushLog) = 2
    /\ \A i \in 1..Len(flushLog) : req[flushLog[i]].out \in RefreshErrors

\* C11 (as claimed): session invalidation is idempotent: however often it is
\* invoked, at most one call to /auth/logout is outstanding, so that one logout
\* transition is observed.
C11_OneLogoutOutstanding == logoutCalls <= 1

\* C12: when the last renewal call settles isRefreshing is false again, and a
\* first-time 401 handled while no renewal is outstanding starts a renewal call
\* of its own: a burst after a settled renewal gets a second renewal call.
C12_NewRenewalAfterSettle ==
    [][/\ (refreshCalls # {} /\ refreshCalls' = {}) => ~isRefreshing'
       /\ \A r \in Req :
            (req[r].st = "flight" /\ ~req[r].retry /\ resp'[r] = "401"
               /\ req'[r] # req[r] /\ refreshCalls = {})
            => (refreshCalls' = {r} /\ isRefreshing')]_vars

\* C12 witness: a renewal has succeeded and its requests were resent, and a
\* second renewal call is outstanding.
C12_Witness ==
    /\ refreshCalls # {}
    /\ \E q \in Req : renewedWith[q] # Null /\ q \notin refreshCalls

\* C13 (as claimed): a caller whose request ended because the renewal failed, or
\* because it got a 401 with _retry set, is rejected with the SessionExpired
\* signal.
C13_SessionExpiredSignal ==
    \A r \in Req :
        (req[r].st = "done" /\ req[r].out \in RefreshErrors \cup {"401"})
        => req[r].out = "SessionExpired"

\* C14: every request handed to the transport carries Authorization: Bearer T
\* for the token T the store holds when it is dispatched, and no Authorization
\* header when the store holds none.
C14_HeaderIsStoreToken ==
    [][\A r \in Req :
         req'[r].sends > req[r].sends => req'[r].hdr = auth'.accessToken]_vars

\* C14 witness: one request went out with the store's token on its first
\* attempt, another went out with no header.
C14_Witness ==
    \E r, q \in Req :
        /\ req[r].st = "flight" /\ req[r].sends = 1 /\ req[r].hdr # Null
        /\ req[q].st = "flight" /\ req[q].sends = 1 /\ req[q].hdr = Null

\* C15 (as claimed): a request that was resent after a renewal is settled with
\* the response to that resend, whatever it is: the resend is the only one.
C15_OutcomeOfSingleResend ==
    [][\A r \in Req :
         (req[r].st = "flight" /\ req[r].sends >= 2 /\ req'[r] # req[r])
         => (req'[r].st = "done" /\ req'[r].out = resp'[r])]_vars

\* C16: in a step in which the outstanding renewal call does not settle, no
\* renewal call is issued, every queued caller stays as it is, and a first-time
\* 401 is appended to the queue.
C16_PendingWhileRenewing ==
    [][(refreshCalls # {} /\ refreshCalls \subseteq refreshCalls')
       => /\ refreshCalls' = refreshCalls
          /\ \A q \in Range(enqOrder) : req'[q] = req[q] /\ q \in Range(failedQueue')
          /\ \A r \in Req :
               (req[r].st = "flight" /\ ~req[r].retry /\ resp'[r] = "401"
                  /\ req'[r] # req[r])
               => (req'[r].st = "queued" /\ failedQueue' = Append(failedQueue, r))]_vars

\* C16 witness: a request waits in the queue behind an outstanding renewal while
\* another request has been settled.
C16_Witness ==
    /\ refreshCalls # {}
    /\ \E q, r \in Req :
          /\ q \in Range(failedQueue) /\ req[q].st = "queued"
          /\ req[r].st = "done" /\ r > q

\* C17: the queue is non-empty only while a renewal is in flight: whenever
\* isRefreshing is false the queue is empty, and every entry is a request that
\* waits behind the outstanding renewal call.
C17_QueueOnlyWhileRefreshing ==
    /\ ~isRefreshing => failedQueue = <<>>
    /\ failedQueue # <<>> => refreshCalls # {}
    /\ \A i \in 1..Len(failedQueue) : req[failedQueue[i]].st = "queued"

\* C17 witness: the queue was flushed by one renewal and holds an entry again
\* behind the next one.
C17_Witness == isRefreshing /\ Len(failedQueue) = 1 /\ flushLog # <<>>

\* C18: when a logoutUser thunk settles, fulfilled or rejected, accessToken and
\* user are null and isAuthenticated is false.
C18_LogoutClearsSession ==
    [][logoutCalls' < logoutCalls
       => /\ auth'.accessToken = Null
          /\ auth'.user = "null"
          /\ auth'.isAuthenticated = FALSE]_vars

\* C18 witness: the store held a token of a renewal, and a logout that the
\* server refused has settled.
C18_Witness ==
    /\ logoutCalls = 0 /\ invalidated
    /\ auth.error = "Logout failed" /\ auth.accessToken = Null
    /\ \E q \in Req : renewedWith[q] # Null

\* C20: each queued continuation is settled exactly once, by the renewal that
\* was in flight when it was enqueued. A queued request changes only in the step
\* that settles that renewal; in that step every request enqueued behind the
\* renewal is either resent with the renewal's token or rejected with the
\* renewal's error, no other waiting or finished request is touched, and the
\* queue is left empty, so that no later renewal finds the continuation again.
C20_SettledOnceByOwnRenewal ==
    [][/\ \A q \in Req :
            (req[q].st = "queued" /\ req'[q] # req[q])
            => (refreshCalls' # refreshCalls /\ q \in Range(enqOrder))
       /\ (refreshCalls' # refreshCalls /\ refreshCalls' \subseteq refreshCalls)
          => /\ failedQueue' = <<>>
             /\ \A q \in Range(enqOrder) :
                  IF issued' # issued
                  THEN /\ req'[q].st = "flight"
                       /\ req'[q].hdr = issued'
                       /\ req'[q].sends = req[q].sends + 1
                  ELSE /\ req'[q].st = "done"
                       /\ req'[q].out \in RefreshErrors
             /\ \A q \in Req \ (Range(enqOrder) \cup refreshCalls) :
                  req'[q] = req[q]]_vars

\* C20 witness: a continuation enqueued behind the second renewal has been
\* resolved with the second token, after an earlier renewal flushed the queue.
C20_Witness ==
    \E q, p \in Req :
        /\ q # p
        /\ flushEnq = <<q>> /\ renewedWith[q] = 2 /\ issued = 2
        /\ req[q].st = "flight" /\ ~req[q].retry /\ req[q].hdr = 2
        /\ req[p].st = "done" /\ req[p].sends = 2

\* C19: when every transport call and every renewal call eventually returns,
\* every request that was sent is eventually settled, no request is sent more
\* than NumReq + 1 times (each renewal needs an initiator of its own, and a
\* request initiates at most one), and isRefreshing eventually returns to false.
C19_EveryCallerSettled ==
    /\ [](\A r \in Req : req[r].sends <= NumReq + 1)
    /\ \A r \in Req : (req[r].st \in {"flight", "queued", "renewing"}) ~> (req[r].st = "done")
    /\ isRefreshing ~> ~isRefreshing

\* C19 witness: every request is settled and no renewal is in flight, after one
\* request went through the longest chain of resends.
C19_Witness ==
    /\ \A r \in Req : req[r].st = "done"
    /\ ~isRefreshing /\ failedQueue = <<>> /\ refreshCalls = {}
    /\ \E r \in Req : req[r].sends = NumReq + 1

\* C22 (as claimed): whenever loginUser ends fulfilled, isAuthenticated is true
\* and user is non-null.
C22_FulfilledLoginIsAuthenticated ==
    [][\A l \in LoginId :
         (login[l].pc = "me" /\ login'[l].pc = "done" /\ auth'.status = "succeeded")
         => (auth'.isAuthenticated /\ auth'.user # "null")]_vars

\* C23 (as claimed): accessToken is null from the moment loginUser becomes
\* pending until it is fulfilled.
C23_NoTokenWhileLoginPending ==
    \A l \in LoginId : login[l].pc \in {"post", "me"} => auth.accessToken = Null

\* C21 (as claimed): once a logout has settled, and until a login is submitted,
\* accessToken stays null and isAuthenticated stays false (logouts that settle
\* while a login is in flight are left aside).
C21_LoggedOutStaysLoggedOut ==
    loggedOut = "clean" => (auth.accessToken = Null /\ ~auth.isAuthenticated)

\* C24: in every reachable auth state, isAuthenticated is true if and only if
\* user is non-null.
C24_AuthenticatedIffUser == auth.isAuthenticated <=> (auth.user # "null")

\* C24 witness: a renewal has failed, a login has been fulfilled, and the store
\* holds the user and the token.
C24_Witness ==
    /\ auth.isAuthenticated /\ auth.user # "null" /\ auth.accessToken # Null
    /\ \E l \in LoginId : login[l].pc = "done"
    /\ session /\ ~stranded /\ \E r \in AppReq : req[r].out \in RefreshErrors

\* C25: on a path other than /login and /register ProtectedRoute renders its
\* children, and the settings page its content, only when isAuthenticated is
\* true and status is neither 'idle' nor 'loading'.
C25_GuardedContent ==
    /\ (pathname \notin Public /\ ProtectedRoute(auth, pathname) = "children")
       => (auth.isAuthenticated /\ auth.status \notin {"idle", "loading"})
    /\ (pathname = "/settings" /\ UserSettingsPage(auth, settingsLoading) = "content")
       => (auth.isAuthenticated /\ auth.status \notin {"idle", "loading"})

\* C25 witness: the settings page shows its content inside ProtectedRoute.
C25_Witness ==
    /\ pathname = "/settings"
    /\ ProtectedRoute(auth, pathname) = "children"
    /\ UserSettingsPage(auth, settingsLoading) = "content"

C28_KeyRequestsCarryStoreToken ==
    \A e \in keyLog : e.store # Null /\ e.hdr = e.store

\* C29 (as claimed): whenever the key-generation dialog is closed,
\* newApiKeyInfo is null, error is null and keyName is empty.
C29_ClosedDialogRetainsNothing ==
    ~dialog.isOpen
    => (dialog.newApiKeyInfo = "null" /\ dialog.error = "null" /\ dialog.keyName = "")

====
